---- MODULE Spec2Model ----
(***************************************************************************)
(* Model of backend/main.py: the discount-code API (generate, grant,       *)
(* validate, use) over the SQLite table discount_codes.                    *)
(*                                                                         *)
(* Each worker handles one request at a time; requests of different        *)
(* workers interleave at the granularity of the SQL statements they send   *)
(* to the shared database file.  `table` is the committed content of       *)
(* discount_codes; `tx[p]` is the uncommitted content seen by the          *)
(* connection of worker p between its write statement and its commit.      *)
(* SQLite admits one writer at a time: a write statement waits (busy       *)
(* handler) while another connection holds the write lock, and readers     *)
(* see committed content only.  `resp` is the most recent HTTP response    *)
(* sent by any worker, with the request it answers; nGrantOK and nUseOK    *)
(* count, per code, the successful Grant and Use answers (a Use succeeds   *)
(* only after reading the code as unused, so nUseOK is at most the number  *)
(* of workers).  `db` tells whether the file discounts.db exists and has   *)
(* the table.  Under SpecFlows, issued also records per code how often     *)
(* the generator has answered it.                                          *)
(***************************************************************************)
EXTENDS Integers, Sequences, FiniteSets, TLC

\* ---- bounds ----
NumProcs == 2

Procs == 1..NumProcs

\* ---- inputs ----
\* candidates the random generator can draw (stand-ins for the 36^10 codes)
GenCodes == {"abc1234567", "zzzzzzzzzz"}
\* well-formed strings a caller can put in CodeRequest.code
Strings == GenCodes
\* CodeRequest.code is any str: other strings a caller can send
RawStrings == {""}
AllStrings == Strings \cup RawStrings

\* generate_random_code(length=10)
CodeLength == 10
\* string.ascii_lowercase + string.digits
Alphabet ==
    {"a", "b", "c", "d", "e", "f", "g", "h", "i", "j", "k", "l", "m",
     "n", "o", "p", "q", "r", "s", "t", "u", "v", "w", "x", "y", "z",
     "0", "1", "2", "3", "4", "5", "6", "7", "8", "9"}
\* the characters of each input string
Spell(c) ==
    CASE c = "abc1234567" -> <<"a", "b", "c", "1", "2", "3", "4", "5", "6", "7">>
      [] c = "zzzzzzzzzz" -> <<"z", "z", "z", "z", "z", "z", "z", "z", "z", "z">>
      [] c = "" -> <<>>
\* a code as generate_random_code makes them
WellFormed(c) ==
    /\ Len(Spell(c)) = CodeLength
    /\ \A i \in 1..Len(Spell(c)) : Spell(c)[i] \in Alphabet

NoRow == [found |-> FALSE, used |-> 0]
NoTx == [active |-> FALSE, t |-> <<>>]
NoCode == "<none>"
NoResp == [op |-> "none", code |-> NoCode, status |-> 0, exists |-> "-", used |-> "-"]

VARIABLES db, table, tx, pc, req, rowcount, resp, issued, nGrantOK, nUseOK

vars == <<db, table, tx, pc, req, rowcount, resp, issued, nGrantOK, nUseOK>>

\* ---- conversions ----
\* Python bool() of the integer stored in the BOOLEAN column
Bool(x) == x # 0
\* JSON encoding of a Python bool
Json(b) == IF b THEN "true" ELSE "false"

Min(S) == CHOOSE x \in S : \A y \in S : x <= y
\* how often the generator has answered a code: never, once, or more often
Again(k) == IF k = "never" THEN "once" ELSE "twice"

\* ---- store ----
Matching(t, c) == {i \in DOMAIN t : t[i].code = c}

\* variant: the test written as "fetchone() is None"
code_exists_Inverted(t, c) == Matching(t, c) = {}

\* SELECT 1 FROM discount_codes WHERE code = ?  ... fetchone() is not None
code_exists(t, c) == Matching(t, c) # {}

\* SELECT used FROM discount_codes WHERE code = ?  ... fetchone()
SelectUsed(t, c) ==
    IF Matching(t, c) = {} THEN NoRow
    ELSE [found |-> TRUE, used |-> t[Min(Matching(t, c))].used]

\* variant: the column declared without UNIQUE
UniqueViolation_NoConstraint(t, c) == FALSE

\* code TEXT UNIQUE NOT NULL
UniqueViolation(t, c) == Matching(t, c) # {}

\* variant: INSERT OR REPLACE (the old row is deleted, a fresh unused one added)
InsertCode_Replace(t, c) ==
    [ok |-> TRUE,
     t |-> Append(SelectSeq(t, LAMBDA r : r.code # c),
                  [id |-> Len(t) + 1, code |-> c, used |-> 0])]

\* variant: INSERT OR IGNORE (a duplicate is dropped without an error)
InsertCode_Ignore(t, c) ==
    IF Matching(t, c) # {}
    THEN [ok |-> TRUE, t |-> t]
    ELSE [ok |-> TRUE,
          t |-> Append(t, [id |-> Len(t) + 1, code |-> c, used |-> 0])]

\* INSERT INTO discount_codes (code, used) VALUES (?, 0)
\* ok = FALSE stands for sqlite3.IntegrityError
InsertCode(t, c) ==
    IF UniqueViolation(t, c)
    THEN [ok |-> FALSE, t |-> t]
    ELSE [ok |-> TRUE,
          t |-> Append(t, [id |-> Len(t) + 1, code |-> c, used |-> 0])]

\* variant: SET used = NOT used
UpdateUsed_Toggle(t, c) ==
    [i \in DOMAIN t |->
        IF t[i].code = c THEN [t[i] EXCEPT !.used = 1 - @] ELSE t[i]]

\* variant: the UPDATE without its WHERE clause
UpdateUsed_AllRows(t, c) ==
    [i \in DOMAIN t |-> [t[i] EXCEPT !.used = 1]]

\* UPDATE discount_codes SET used = 1 WHERE code = ?
UpdateUsed(t, c) ==
    [i \in DOMAIN t |-> IF t[i].code = c THEN [t[i] EXCEPT !.used = 1] ELSE t[i]]

\* cursor.rowcount after the UPDATE
RowCount(t, c) == Cardinality(Matching(t, c))

WriteLocked == \E q \in Procs : tx[q].active

\* ---- handlers' decisions ----
\* variant: a default record instead of the explicit "not found"
ValidateResponse_Placeholder(row) ==
    [status |-> 200, exists |-> Json(row.found), used |-> Json(Bool(row.used))]

\* post_validate_code: the body returned for a fetched row
ValidateResponse(row) ==
    IF ~row.found
    THEN [status |-> 200, exists |-> "false", used |-> "null"]
    ELSE [status |-> 200, exists |-> "true", used |-> Json(Bool(row.used))]

\* variant: the already-used check left out
UseCheck_NoUsedCheck(row) == IF ~row.found THEN 404 ELSE 0

\* variant: the two status codes exchanged
UseCheck_Swapped(row) ==
    IF ~row.found THEN 409
    ELSE IF Bool(row.used) THEN 404
    ELSE 0

\* variant: the "result is None" check left out
UseCheck_NoFoundCheck(row) == IF Bool(row.used) THEN 409 ELSE 0

\* post_use_code step 1: 404 / 409 / 0 (go on to the UPDATE)
UseCheck(row) ==
    IF ~row.found THEN 404
    ELSE IF Bool(row.used) THEN 409
    ELSE 0

\* post_use_code after the commit
UseResult(n) == IF n = 0 THEN 404 ELSE 200

\* a response without exists/used fields
Answer(op, c, status) ==
    [op |-> op, code |-> c, status |-> status, exists |-> "-", used |-> "-"]

\* the state after the first startup in an empty directory
Init ==
    /\ db = "ready"
    /\ table = <<>>
    /\ tx = [p \in Procs |-> NoTx]
    /\ pc = [p \in Procs |-> "idle"]
    /\ req = [p \in Procs |-> NoCode]
    /\ rowcount = [p \in Procs |-> 0]
    /\ resp = NoResp
    /\ issued = [c \in GenCodes |-> "never"]
    /\ nGrantOK = [c \in AllStrings |-> 0]
    /\ nUseOK = [c \in AllStrings |-> 0]

\* GET /generate_code: one iteration of the loop of generate_unique_code,
\* in which generate_random_code draws cand; with observe, the answer is
\* also recorded in issued
GenerateDraw(p, cand, observe) ==
    /\ pc[p] \in {"idle", "generating"}
    /\ db = "ready"
    /\ IF code_exists(table, cand)
       THEN /\ pc' = [pc EXCEPT ![p] = "generating"]
            /\ UNCHANGED <<resp, issued>>
       ELSE /\ pc' = [pc EXCEPT ![p] = "idle"]
            /\ resp' = Answer("generate", cand, 200)
            /\ issued' = IF observe
                         THEN [issued EXCEPT ![cand] = Again(@)]
                         ELSE issued
    /\ UNCHANGED <<db, table, tx, req, rowcount, nGrantOK, nUseOK>>

Generate(p, observe) == \E cand \in GenCodes : GenerateDraw(p, cand, observe)

GenerateCode(p) == Generate(p, FALSE)

GenerateCodeObserved(p) == Generate(p, TRUE)

\* POST /grant_code: the INSERT; IntegrityError -> rollback, 409
GrantInsert(p, c) ==
    /\ pc[p] = "idle"
    /\ db = "ready"
    /\ ~WriteLocked
    /\ LET r == InsertCode(table, c) IN
         IF r.ok
         THEN /\ tx' = [tx EXCEPT ![p] = [active |-> TRUE, t |-> r.t]]
              /\ pc' = [pc EXCEPT ![p] = "grant_commit"]
              /\ req' = [req EXCEPT ![p] = c]
              /\ resp' = resp
         ELSE /\ resp' = Answer("grant", c, 409)
              /\ UNCHANGED <<tx, pc, req>>
    /\ UNCHANGED <<db, table, rowcount, issued, nGrantOK, nUseOK>>

\* POST /grant_code: conn.commit() and the success message
GrantCommit(p) ==
    /\ pc[p] = "grant_commit"
    /\ table' = tx[p].t
    /\ tx' = [tx EXCEPT ![p] = NoTx]
    /\ pc' = [pc EXCEPT ![p] = "idle"]
    /\ req' = [req EXCEPT ![p] = NoCode]
    /\ resp' = Answer("grant", req[p], 200)
    /\ nGrantOK' = [nGrantOK EXCEPT ![req[p]] = @ + 1]
    /\ UNCHANGED <<db, rowcount, issued, nUseOK>>

\* variant: a Validate that also redeems the code it finds
Validate_Redeems(p, c) ==
    /\ pc[p] = "idle"
    /\ db = "ready"
    /\ resp' = [op |-> "validate", code |-> c] @@ ValidateResponse(SelectUsed(table, c))
    /\ table' = UpdateUsed(table, c)
    /\ UNCHANGED <<db, tx, pc, req, rowcount, issued, nGrantOK, nUseOK>>

\* POST /validate_code
Validate(p, c) ==
    /\ pc[p] = "idle"
    /\ db = "ready"
    /\ resp' = [op |-> "validate", code |-> c] @@ ValidateResponse(SelectUsed(table, c))
    /\ UNCHANGED <<db, table, tx, pc, req, rowcount, issued, nGrantOK, nUseOK>>

\* POST /use_code step 1: the SELECT and the two checks
UseSelect(p, c) ==
    /\ pc[p] = "idle"
    /\ db = "ready"
    /\ LET chk == UseCheck(SelectUsed(table, c)) IN
         IF chk = 0
         THEN /\ pc' = [pc EXCEPT ![p] = "use_update"]
              /\ req' = [req EXCEPT ![p] = c]
              /\ resp' = resp
         ELSE /\ resp' = Answer("use", c, chk)
              /\ UNCHANGED <<pc, req>>
    /\ UNCHANGED <<db, table, tx, rowcount, issued, nGrantOK, nUseOK>>

\* POST /use_code step 2: the UPDATE
UseUpdate(p) ==
    /\ pc[p] = "use_update"
    /\ ~WriteLocked
    /\ tx' = [tx EXCEPT ![p] = [active |-> TRUE, t |-> UpdateUsed(table, req[p])]]
    /\ rowcount' = [rowcount EXCEPT ![p] = RowCount(table, req[p])]
    /\ pc' = [pc EXCEPT ![p] = "use_commit"]
    /\ UNCHANGED <<db, table, req, resp, issued, nGrantOK, nUseOK>>

\* POST /use_code: conn.commit(), the rowcount check and the response
UseCommit(p) ==
    /\ pc[p] = "use_commit"
    /\ table' = tx[p].t
    /\ tx' = [tx EXCEPT ![p] = NoTx]
    /\ pc' = [pc EXCEPT ![p] = "idle"]
    /\ req' = [req EXCEPT ![p] = NoCode]
    /\ rowcount' = [rowcount EXCEPT ![p] = 0]
    /\ resp' = Answer("use", req[p], UseResult(rowcount[p]))
    /\ nUseOK' = [nUseOK EXCEPT ![req[p]] =
                     IF UseResult(rowcount[p]) = 200 THEN @ + 1 ELSE @]
    /\ UNCHANGED <<db, issued, nGrantOK>>

Next ==
    \/ \E p \in Procs : GenerateCode(p)
    \/ \E p \in Procs, c \in Strings : GrantInsert(p, c)
    \/ \E p \in Procs : GrantCommit(p)
    \/ \E p \in Procs, c \in Strings : Validate(p, c)
    \/ \E p \in Procs, c \in Strings : UseSelect(p, c)
    \/ \E p \in Procs : UseUpdate(p)
    \/ \E p \in Procs : UseCommit(p)

Spec == Init /\ [][Next]_vars

\* the same system with callers that send any string
NextInputs ==
    \/ \E p \in Procs : GenerateCode(p)
    \/ \E p \in Procs, c \in AllStrings : GrantInsert(p, c)
    \/ \E p \in Procs : GrantCommit(p)
    \/ \E p \in Procs, c \in AllStrings : Validate(p, c)
    \/ \E p \in Procs, c \in AllStrings : UseSelect(p, c)
    \/ \E p \in Procs : UseUpdate(p)
    \/ \E p \in Procs : UseCommit(p)

SpecInputs == Init /\ [][NextInputs]_vars

\* ---- startup ----
\* the directory before the API is started for the first time
InitStartup ==
    /\ db = "nofile"
    /\ table = <<>>
    /\ tx = [p \in Procs |-> NoTx]
    /\ pc = [p \in Procs |-> "down"]
    /\ req = [p \in Procs |-> NoCode]
    /\ rowcount = [p \in Procs |-> 0]
    /\ resp = NoResp
    /\ issued = [c \in GenCodes |-> "never"]
    /\ nGrantOK = [c \in AllStrings |-> 0]
    /\ nUseOK = [c \in AllStrings |-> 0]

\* startup_event -> init_db: "if not os.path.exists(DATABASE)"; when the
\* file exists init_db only prints and the worker starts serving
StartupCheck(p) ==
    /\ pc[p] = "down"
    /\ pc' = [pc EXCEPT ![p] = IF db = "nofile" THEN "init_connect" ELSE "idle"]
    /\ UNCHANGED <<db, table, tx, req, rowcount, resp, issued, nGrantOK, nUseOK>>

\* init_db: sqlite3.connect(DATABASE) creates the (empty) file
StartupConnect(p) ==
    /\ pc[p] = "init_connect"
    /\ db' = IF db = "nofile" THEN "notable" ELSE db
    /\ pc' = [pc EXCEPT ![p] = "init_create"]
    /\ UNCHANGED <<table, tx, req, rowcount, resp, issued, nGrantOK, nUseOK>>

\* init_db: CREATE TABLE IF NOT EXISTS ...; conn.commit()
StartupCreate(p) ==
    /\ pc[p] = "init_create"
    /\ db' = "ready"
    /\ pc' = [pc EXCEPT ![p] = "idle"]
    /\ UNCHANGED <<table, tx, req, rowcount, resp, issued, nGrantOK, nUseOK>>

\* init_db: the CREATE TABLE raises sqlite3.Error, which is caught and
\* printed; the worker starts serving
StartupCreateFails(p) ==
    /\ pc[p] = "init_create"
    /\ pc' = [pc EXCEPT ![p] = "idle"]
    /\ UNCHANGED <<db, table, tx, req, rowcount, resp, issued, nGrantOK, nUseOK>>

\* the worker process stops between two requests; its next start runs
\* startup_event again
Shutdown(p) ==
    /\ pc[p] = "idle"
    /\ pc' = [pc EXCEPT ![p] = "down"]
    /\ UNCHANGED <<db, table, tx, req, rowcount, resp, issued, nGrantOK, nUseOK>>

\* any handler on a file without the table: its first statement raises
\* sqlite3.OperationalError (no such table), answered with 500 (by the
\* "except sqlite3.Error" of grant and use, by the framework otherwise)
NoSuchTable(p, op, c) ==
    /\ pc[p] = "idle"
    /\ db # "ready"
    /\ resp' = Answer(op, IF op = "generate" THEN NoCode ELSE c, 500)
    /\ UNCHANGED <<db, table, tx, pc, req, rowcount, issued, nGrantOK, nUseOK>>

NextStartup ==
    \/ Next
    \/ \E p \in Procs : StartupCheck(p)
    \/ \E p \in Procs : StartupConnect(p)
    \/ \E p \in Procs : StartupCreate(p)
    \/ \E p \in Procs : StartupCreateFails(p)
    \/ \E p \in Procs : Shutdown(p)
    \/ \E p \in Procs, op \in {"generate", "grant", "validate", "use"}, c \in Strings :
          NoSuchTable(p, op, c)

SpecStartup == InitStartup /\ [][NextStartup]_vars

\* ---- storage failures ----
\* variant: the except branch commits what the connection holds
Rollback_Commits(committed, view) == view

\* conn.rollback(): the connection's uncommitted content is dropped
Rollback(committed, view) == committed

\* post_grant_code / post_use_code: the first statement (INSERT, SELECT)
\* raises a sqlite3.Error other than IntegrityError (the wait for the write
\* lock timed out, I/O error): except sqlite3.Error -> rollback, 500
RequestError(p, op, c) ==
    /\ pc[p] = "idle"
    /\ db = "ready"
    /\ op \in {"grant", "use"}
    /\ table' = Rollback(table, table)
    /\ resp' = Answer(op, c, 500)
    /\ UNCHANGED <<db, tx, pc, req, rowcount, issued, nGrantOK, nUseOK>>

\* post_grant_code / post_use_code: the UPDATE or the commit raises
\* sqlite3.Error: except sqlite3.Error -> rollback, 500
TxError(p) ==
    /\ pc[p] \in {"grant_commit", "use_update", "use_commit"}
    /\ table' = Rollback(table, IF tx[p].active THEN tx[p].t ELSE table)
    /\ tx' = [tx EXCEPT ![p] = NoTx]
    /\ pc' = [pc EXCEPT ![p] = "idle"]
    /\ req' = [req EXCEPT ![p] = NoCode]
    /\ rowcount' = [rowcount EXCEPT ![p] = 0]
    /\ resp' = Answer(IF pc[p] = "grant_commit" THEN "grant" ELSE "use", req[p], 500)
    /\ UNCHANGED <<db, issued, nGrantOK, nUseOK>>

NextFaults ==
    \/ Next
    \/ \E p \in Procs, op \in {"grant", "use"}, c \in Strings : RequestError(p, op, c)
    \/ \E p \in Procs : TxError(p)

SpecFaults == Init /\ [][NextFaults]_vars

\* random.choice is uniform: a loop that keeps running draws every candidate
\* again and again
FairDraws ==
    \A p \in Procs, cand \in GenCodes :
        WF_vars(pc[p] = "generating" /\ GenerateDraw(p, cand, FALSE))

SpecFair == Init /\ [][Next]_vars /\ FairDraws

\* the same system, with the generator's answers recorded per code
NextFlows ==
    \/ \E p \in Procs : GenerateCodeObserved(p)
    \/ \E p \in Procs, c \in Strings : GrantInsert(p, c)
    \/ \E p \in Procs : GrantCommit(p)
    \/ \E p \in Procs, c \in Strings : Validate(p, c)
    \/ \E p \in Procs, c \in Strings : UseSelect(p, c)
    \/ \E p \in Procs : UseUpdate(p)
    \/ \E p \in Procs : UseCommit(p)

SpecFlows == Init /\ [][NextFlows]_vars

(***************************************************************************)
(* Properties                                                              *)
(***************************************************************************)
Present(t, c) == Matching(t, c) # {}
IsUsed(t, c) == \E i \in Matching(t, c) : t[i].used # 0
IsUnused(t, c) == \E i \in Matching(t, c) : t[i].used = 0

\* C1: of the Use calls that run concurrently on one granted, unused code,
\* exactly one answers success and the others answer 409: no code ever
\* collects two successful Use answers.
C1_ExactlyOneUseSucceeds == \A c \in Strings : nUseOK[c] <= 1

\* C2: no two records of the store (committed, or in a connection's open
\* transaction) have the same code.
C2_UniqueCodes ==
    /\ \A i, j \in DOMAIN table : table[i].code = table[j].code => i = j
    /\ \A p \in Procs : \A i, j \in DOMAIN tx[p].t :
          tx[p].t[i].code = tx[p].t[j].code => i = j

C2_Witness ==
    /\ Len(table) = 2
    /\ resp.op = "grant" /\ resp.status = 409

\* C3: used is monotonic: a code whose record is used keeps a record, and
\* every record of it is used, after every step.
C3_UsedMonotonic ==
    [][\A c \in Strings :
          IsUsed(table, c) => (Present(table', c) /\ ~IsUnused(table', c))]_vars

C3_Witness ==
    /\ resp.op = "grant" /\ resp.status = 409
    /\ IsUsed(table, resp.code)
    /\ nUseOK[resp.code] >= 1

\* C4: when the generator has handed the same candidate to two flows, the
\* Grants of that candidate yield at most one success and never a second
\* record; once a Grant of it has been refused with 409, exactly one Grant
\* has succeeded and exactly one record of it exists.
C4_GrantRaceArbitrated ==
    \A c \in GenCodes :
        issued[c] = "twice" =>
            /\ nGrantOK[c] <= 1
            /\ RowCount(table, c) = nGrantOK[c]
            /\ (resp = Answer("grant", c, 409) =>
                    (nGrantOK[c] = 1 /\ RowCount(table, c) = 1))

C4_Witness ==
    \E c \in GenCodes :
        /\ issued[c] = "twice"
        /\ nGrantOK[c] = 1
        /\ resp = Answer("grant", c, 409)
        /\ RowCount(table, c) = 1

\* C5: a Grant whose INSERT finds the code present (used or unused) answers
\* 409 and ends there; the store keeps exactly one record of the code, with
\* the same used flag.
C5_GrantExistingConflict ==
    [][\A p \in Procs, c \in Strings :
          (Present(table, c) /\ GrantInsert(p, c)) =>
              /\ resp' = Answer("grant", c, 409)
              /\ pc'[p] = "idle" /\ ~tx'[p].active
              /\ table' = table
              /\ RowCount(table', c) = 1
              /\ SelectUsed(table', c) = SelectUsed(table, c)]_vars

C5_Witness ==
    /\ resp.op = "grant" /\ resp.status = 409
    /\ RowCount(table, resp.code) = 1
    /\ IsUnused(table, resp.code)

\* C6: a Use that reads the code as used answers 409 and changes nothing; a
\* Use that reads it as unused goes on to the UPDATE and answers success
\* leaving the code used, so a second Use in sequence answers 409.
C6_UseTwice ==
    [][\A p \in Procs :
          /\ \A c \in Strings :
                (Present(table, c) /\ UseSelect(p, c)) =>
                    IF IsUsed(table, c)
                    THEN /\ resp' = Answer("use", c, 409)
                         /\ pc'[p] = "idle"
                         /\ table' = table /\ tx' = tx
                    ELSE pc'[p] = "use_update" /\ req'[p] = c
          /\ UseCommit(p) =>
                (resp' = Answer("use", req[p], 200) /\ IsUsed(table', req[p]))]_vars

C6_Witness ==
    /\ resp.op = "use" /\ resp.status = 409
    /\ nUseOK[resp.code] = 1
    /\ IsUsed(table, resp.code)

\* C7: a Use of a code without a record answers 404 and leaves the store
\* (committed records and open transactions) as it was.
C7_UseUnknownNotFound ==
    [][\A p \in Procs, c \in Strings :
          (~Present(table, c) /\ UseSelect(p, c)) =>
              /\ resp' = Answer("use", c, 404)
              /\ pc'[p] = "idle"
              /\ table' = table /\ tx' = tx]_vars

C7_Witness ==
    /\ resp = Answer("use", "zzzzzzzzzz", 404)
    /\ ~Present(table, "zzzzzzzzzz")
    /\ nGrantOK["zzzzzzzzzz"] = 0

\* C8: a successful Grant leaves the record present and unused, and a
\* Validate of a code that has been granted and on which no Use has
\* succeeded answers exists = true, used = false.
C8_GrantThenValidate ==
    [][\A p \in Procs :
          /\ GrantCommit(p) =>
                (Present(table', req[p]) /\ ~IsUsed(table', req[p]))
          /\ \A c \in Strings :
                (nGrantOK[c] >= 1 /\ nUseOK[c] = 0 /\ Validate(p, c)) =>
                    resp' = [op |-> "validate", code |-> c, status |-> 200,
                             exists |-> "true", used |-> "false"]]_vars

C8_Witness ==
    /\ resp.op = "validate" /\ resp.exists = "true" /\ resp.used = "false"
    /\ nGrantOK[resp.code] = 1 /\ nUseOK[resp.code] = 0

\* C9: once a Use of a code has answered success, every Validate of it
\* answers exists = true, used = true and every Use of it that starts
\* afterwards answers 409.
C9_AfterUse ==
    [][\A p \in Procs, c \in Strings :
          nUseOK[c] >= 1 =>
              /\ Validate(p, c) =>
                    resp' = [op |-> "validate", code |-> c, status |-> 200,
                             exists |-> "true", used |-> "true"]
              /\ UseSelect(p, c) =>
                    (resp' = Answer("use", c, 409) /\ pc'[p] = "idle")]_vars

C9_Witness ==
    /\ resp.op = "validate" /\ resp.exists = "true" /\ resp.used = "true"
    /\ nUseOK[resp.code] >= 1

\* C10: Validate answers exists = false, used = null exactly when the
\* committed store has no record of the code when it reads, and otherwise
\* exists = true with the used flag of the stored record.
C10_ValidateReflectsStore ==
    [][\A p \in Procs, c \in Strings :
          (resp'.op = "validate" /\ Validate(p, c)) =>
              /\ resp'.code = c /\ resp'.status = 200
              /\ (resp'.exists = "false") <=> (Matching(table, c) = {})
              /\ resp'.exists \in {"true", "false"}
              /\ (resp'.used = "null") <=> (Matching(table, c) = {})
              /\ \A i \in Matching(table, c) :
                    resp'.used = (IF table[i].used = 1 THEN "true" ELSE "false")]_vars

\* a Validate answered "absent" while another connection holds the
\* uncommitted INSERT of that code
C10_Witness ==
    /\ resp.op = "validate" /\ resp.exists = "false" /\ resp.used = "null"
    /\ \E q \in Procs : tx[q].active /\ Present(tx[q].t, resp.code)

\* C11: Validate never changes the store: the committed records, their used
\* flags and every open transaction are the same after a Validate as before.
C11_ValidateReadOnly ==
    [][\A p \in Procs, c \in Strings :
          (resp'.op = "validate" /\ Validate(p, c)) =>
              (table' = table /\ tx' = tx)]_vars

C11_Witness ==
    /\ resp.op = "validate" /\ resp.exists = "true" /\ resp.used = "false"
    /\ IsUnused(table, resp.code)
    /\ Len(table) = 2

\* C12: the code the generator answers has no record in the store at that
\* moment, whatever the store holds.
C12_GeneratedCodeAbsent ==
    [][\A p \in Procs :
          (pc'[p] = "idle" /\ GenerateCode(p)) =>
              /\ resp'.op = "generate" /\ resp'.status = 200
              /\ resp'.code \in GenCodes
              /\ Matching(table', resp'.code) = {}]_vars

C12_Witness ==
    /\ resp.op = "generate"
    /\ ~Present(table, resp.code)
    /\ Len(table) >= 1

CodeState(t, c) ==
    IF ~Present(t, c) THEN "ABSENT"
    ELSE IF IsUsed(t, c) THEN "USED"
    ELSE "UNUSED"

\* C13: per code the only changes of state are ABSENT -> UNUSED, made by the
\* commit of a Grant of that code answered with success, and UNUSED -> USED,
\* made by the commit of a Use of that code answered with success; a code
\* with a record never becomes ABSENT again and USED is terminal.
C13_Lifecycle ==
    [][\A c \in Strings :
          CodeState(table', c) # CodeState(table, c) =>
              \/ /\ CodeState(table, c) = "ABSENT"
                 /\ CodeState(table', c) = "UNUSED"
                 /\ \E p \in Procs : req[p] = c /\ GrantCommit(p)
                 /\ resp' = Answer("grant", c, 200)
              \/ /\ CodeState(table, c) = "UNUSED"
                 /\ CodeState(table', c) = "USED"
                 /\ \E p \in Procs : req[p] = c /\ UseCommit(p)
                 /\ resp' = Answer("use", c, 200)]_vars

C13_Witness ==
    \E c \in Strings :
        /\ CodeState(table, c) = "USED"
        /\ nGrantOK[c] = 1 /\ nUseOK[c] = 1
        /\ resp = Answer("use", c, 200)

\* the code a step of worker p works on, if the step belongs to a Grant or
\* a Use
GrantOrUseStep(p, c) ==
    \/ (pc[p] = "idle" /\ (GrantInsert(p, c) \/ UseSelect(p, c)))
    \/ (pc[p] # "idle" /\ req[p] = c
          /\ (GrantCommit(p) \/ UseUpdate(p) \/ UseCommit(p)))

\* C18: every step of a Grant or a Use of code c leaves the record of every
\* other code d as it was: present or not, and with the same used flag.
C18_OtherCodesUntouched ==
    [][\A p \in Procs, c \in Strings :
          GrantOrUseStep(p, c) =>
              \A d \in Strings \ {c} :
                  /\ SelectUsed(table', d) = SelectUsed(table, d)
                  /\ RowCount(table', d) = RowCount(table, d)
                  /\ tx'[p].active =>
                        SelectUsed(tx'[p].t, d) = SelectUsed(table, d)]_vars

C18_Witness ==
    \E c \in Strings, d \in Strings :
        /\ c # d
        /\ resp = Answer("use", c, 200)
        /\ CodeState(table, c) = "USED"
        /\ CodeState(table, d) = "UNUSED"

\* C20: the UPDATE of a Use that passed the two checks affects exactly one
\* row, so the answer after the commit is never the late 404.
C20_UpdateHitsOneRow ==
    \A p \in Procs :
        /\ pc[p] = "use_update" => RowCount(table, req[p]) = 1
        /\ pc[p] = "use_commit" =>
              (rowcount[p] = 1 /\ UseResult(rowcount[p]) = 200)

\* a Use holding its UPDATE of a code that a racing Use has already marked
C20_Witness ==
    \E p \in Procs :
        /\ pc[p] = "use_commit"
        /\ IsUsed(table, req[p])
        /\ rowcount[p] = 1

AllPresent == \A c \in GenCodes : Present(table, c)

\* C19: with fair draws a running generator loop ends (it answers a code)
\* unless every candidate has a record; the loop has no attempt cap: while
\* every candidate has a record it keeps running, and a generate request is
\* never answered with an error.
C19_GeneratorTerminates ==
    /\ \A p \in Procs :
          (pc[p] = "generating") ~> (pc[p] # "generating" \/ AllPresent)
    /\ [][\A p \in Procs :
            (pc[p] = "generating" /\ AllPresent) => pc'[p] = "generating"]_vars
    /\ [](resp.op = "generate" => resp.status = 200)

\* a loop that has drawn a present candidate while another one is absent
C19_Witness ==
    \E p \in Procs :
        /\ pc[p] = "generating"
        /\ ~AllPresent
        /\ \E c \in GenCodes : Present(table, c)

\* C16: a startup that completes leaves the table existing, also when it
\* found the database file without the table, and changes no record.
C16_StartupCreatesTable ==
    [][\A p \in Procs :
          (pc[p] \in {"down", "init_connect", "init_create"} /\ pc'[p] = "idle") =>
              (db' = "ready" /\ table' = table)]_vars

\* C17: a Validate answered by a worker that has completed its startup is
\* never an error response.
C17_ValidateNeverFails == resp.op = "validate" => resp.status = 200

\* the step with which worker p ends a Grant or a Use
EndsGrantOrUse(p) ==
    /\ pc'[p] = "idle"
    /\ \/ \E c \in Strings : GrantInsert(p, c) \/ UseSelect(p, c)
       \/ \E c \in Strings, op \in {"grant", "use"} : RequestError(p, op, c)
       \/ GrantCommit(p)
       \/ UseCommit(p)
       \/ TxError(p)

\* C15: a Grant or a Use that is answered with a failure (404, 409 or 500)
\* has persisted nothing: the committed table is the one from before the
\* step, the worker's transaction is closed without effect and no other
\* connection's transaction is touched.
C15_FailureLeavesNoTrace ==
    [][\A p \in Procs :
          (resp'.status \in {404, 409, 500} /\ EndsGrantOrUse(p)) =>
              /\ table' = table
              /\ ~tx'[p].active
              /\ \A q \in Procs \ {p} : tx'[q] = tx[q]]_vars

C15_Witness ==
    /\ resp.op = "use" /\ resp.status = 500
    /\ IsUnused(table, resp.code)
    /\ \A p \in Procs : ~tx[p].active /\ pc[p] = "idle"

\* C14: every record of the store has a code of exactly 10 characters from
\* a-z and 0-9; in particular the empty string is never a stored code,
\* whatever string a caller passes to Grant.
C14_StoredCodesWellFormed ==
    /\ \A i \in DOMAIN table : WellFormed(table[i].code)
    /\ ~Present(table, "")

====
